---- MODULE Spec2Model ----
(***************************************************************************)
(* Model of the Qiniu storage driver's offset write (driver.WriteStream)   *)
(* and of the part upload it is built on (kodocli.Uploader.PutParts).      *)
(*                                                                         *)
(* One key of one bucket is modelled.  The backend object stored at the    *)
(* key is `object`; `subFiles` says whether objects exist under the        *)
(* prefix key + "/".  Every WriteStream call in flight has a frame in `ws` *)
(* holding the locals of the Go function and its position in it.  `up` is   *)
(* a call of PutParts made directly by a client of the kodocli package.    *)
(***************************************************************************)
EXTENDS Integers, Sequences, FiniteSets, TLC

VARIABLES object, subFiles, ws, up

vars == <<object, subFiles, ws, up>>

(***************************************************************************)
(* Bounds of the model.                                                    *)
(***************************************************************************)
MaxLen == 2        \* longest stream a caller hands to WriteStream
MaxOffset == 3     \* largest offset a caller passes
MaxObj == 4        \* largest object the backend accepts
MaxParts == 3      \* longest part list a client hands to PutParts

Bytes == {0, 1}    \* byte values; 0 is the value of make([]byte, n)

Procs == {1, 2}    \* callers of WriteStream

Path == "key"      \* the one key that is modelled

(***************************************************************************)
(* Sequences of bytes.                                                     *)
(***************************************************************************)
SeqsUpTo(S, n) == UNION {[1..k -> S] : k \in 0..n}

Zeros(n) == [i \in 1..n |-> 0]

\* s[from+1 .. to], the half-open byte range [from, to) of s
Slice(s, from, to) == SubSeq(s, from + 1, to)

(***************************************************************************)
(* io.Reader values.  kind "file" is an *os.File, "bytes" a *bytes.Reader  *)
(* (both are io.ReadSeekers), "pipe" a one-shot reader, "nil" no reader.   *)
(***************************************************************************)
NilReader == [kind |-> "nil", data |-> <<>>, pos |-> 0]

FileReader(data, pos) == [kind |-> "file", data |-> data, pos |-> pos]

BytesReader(data) == [kind |-> "bytes", data |-> data, pos |-> 0]

IsReadSeeker(r) == r.kind \in {"file", "bytes"}

\* what io.Copy(dst, r) moves: the bytes from r's position to its end
Remaining(r) == Slice(r.data, r.pos, Len(r.data))

(***************************************************************************)
(* uint32 values are pairs <<high 16 bits, low 16 bits>>; the checksum is  *)
(* computed on 32-bit words, functions from bit position to bit.           *)
(***************************************************************************)
U32Zero == <<0, 0>>

WordBits == 0..31

OnesWord == [i \in WordBits |-> 1]

\* crc32.IEEE, 0xedb88320, as the set of its one bits
IEEEPoly == {31, 30, 29, 27, 26, 24, 23, 21, 20, 19, 15, 9, 8, 5}

PolyWord == [i \in WordBits |-> IF i \in IEEEPoly THEN 1 ELSE 0]

XorW(a, b) == [i \in WordBits |-> (a[i] + b[i]) % 2]

ShrW(a) == [i \in WordBits |-> IF i = 31 THEN 0 ELSE a[i + 1]]

ByteWord(b) == [i \in WordBits |-> IF i < 8 THEN (b \div (2 ^ i)) % 2 ELSE 0]

CrcBit(c) == IF c[0] = 1 THEN XorW(ShrW(c), PolyWord) ELSE ShrW(c)

CrcByte(c, b) ==
    CrcBit(CrcBit(CrcBit(CrcBit(CrcBit(CrcBit(CrcBit(CrcBit(XorW(c, ByteWord(b))))))))))

RECURSIVE CrcUpdate(_, _)
CrcUpdate(c, s) ==
    IF s = <<>> THEN c ELSE CrcUpdate(CrcByte(c, Head(s)), Tail(s))

RECURSIVE WordSum(_, _, _)
WordSum(w, lo, hi) ==
    IF lo > hi THEN 0 ELSE w[lo] + 2 * WordSum(w, lo + 1, hi)

ToU32(w) == <<WordSum(w, 16, 31), WordSum(w, 0, 15)>>

\* crc32.NewIEEE() fed with s, then Sum32()
ChecksumIEEE(s) == ToU32(XorW(CrcUpdate(OnesWord, s), OnesWord))

(***************************************************************************)
(* kodocli.Part, and the descriptor `part` that is serialized.             *)
(***************************************************************************)
Part(fileName, r, crc32v, checkCrc, key, from, to) ==
    [FileName |-> fileName, R |-> r, Crc32 |-> crc32v, CheckCrc |-> checkCrc,
     Key |-> key, From |-> from, To |-> to]

typeDirect == "direct"

typeCopy == "copy"

\* fmt.Sprintf("%d-%d", from, to)
RangeStr(from, to) == ToString(from) \o "-" \o ToString(to)

DirectDesc(crc32v) ==
    [type |-> typeDirect, crc32 |-> crc32v, storageFile |-> "", range |-> ""]

CopyDesc(key, from, to) ==
    [type |-> typeCopy, crc32 |-> U32Zero, storageFile |-> key,
     range |-> RangeStr(from, to)]

(***************************************************************************)
(* The multipart body: a sequence of form fields.  An encoding in progress *)
(* is [fields, arg, err, reads]: the body so far, arg.Parts, the error     *)
(* ("" is nil) and the log of passes made over the parts' readers.         *)
(***************************************************************************)
FormField(name, value) == [name |-> name, filename |-> "", value |-> value]

FormFile(name, filename, value) ==
    [name |-> name, filename |-> filename, value |-> value]

NoExtra == [MimeType |-> "", Params |-> <<>>]

\* writeMultipartOfPart writing the key field whatever hasKey is
writeMultipartKeyAlways(uptoken, key, hasKey, extra) ==
    <<FormField("token", uptoken), FormField("key", key)>>
      \o [i \in 1..Len(extra.Params) |->
            FormField(extra.Params[i][1], extra.Params[i][2])]

writeMultipartOfPart(uptoken, key, hasKey, extra) ==
    <<FormField("token", uptoken)>>
      \o (IF hasKey THEN <<FormField("key", key)>> ELSE <<>>)
      \o [i \in 1..Len(extra.Params) |->
            FormField(extra.Params[i][1], extra.Params[i][2])]

ErrNotSeeker == "r should be io.ReadSeeker if generate crc32 in sdk"

ErrCopyFailed == "io.Copy failed:"

ErrInvalidRange == "invalid from&to argument"

ErrOpen == "open: no such file or directory"

\* addDirectFile without the io.ReadSeeker test: a one-shot reader is
\* consumed by the checksum pass and has nothing left for the upload
addDirectFileNoSeekerTest(e, idx, checkCrc, crc32v, r) ==
    LET fieldName == "part-" \o ToString(idx)
        created == [e EXCEPT !.fields = Append(@, FormFile(fieldName, fieldName, <<>>))]
        sumPass == checkCrc /\ crc32v = U32Zero
        crc == IF sumPass THEN ChecksumIEEE(Remaining(r)) ELSE crc32v
        rewound == IF ~sumPass THEN r
                   ELSE IF IsReadSeeker(r) THEN [r EXCEPT !.pos = 0]
                   ELSE [r EXCEPT !.pos = Len(r.data)]
        passes == (IF sumPass THEN <<[idx |-> idx, pass |-> "crc32", n |-> Len(Remaining(r))]>>
                   ELSE <<>>)
                  \o <<[idx |-> idx, pass |-> "upload", n |-> Len(Remaining(rewound))]>>
    IN  IF r.kind = "broken"
          THEN [created EXCEPT !.err = ErrCopyFailed]
        ELSE [created EXCEPT
                !.fields[Len(created.fields)].value = Remaining(rewound),
                !.arg = Append(@, DirectDesc(crc)),
                !.reads = @ \o passes]

\* addDirectFile naming the attachment by the number of direct parts before it
addDirectFileCountsDirect(e, idx, checkCrc, crc32v, r) ==
    LET fieldName == "part-" \o ToString(Cardinality({i \in 1..Len(e.arg) :
                                                       e.arg[i].type = typeDirect}))
        created == [e EXCEPT !.fields = Append(@, FormFile(fieldName, fieldName, <<>>))]
        sumPass == checkCrc /\ crc32v = U32Zero
        crc == IF sumPass THEN ChecksumIEEE(Remaining(r)) ELSE crc32v
        rewound == IF sumPass THEN [r EXCEPT !.pos = 0] ELSE r
        passes == (IF sumPass THEN <<[idx |-> idx, pass |-> "crc32", n |-> Len(Remaining(r))]>>
                   ELSE <<>>)
                  \o <<[idx |-> idx, pass |-> "upload", n |-> Len(Remaining(rewound))]>>
    IN  IF sumPass /\ ~IsReadSeeker(r)
          THEN [created EXCEPT !.err = ErrNotSeeker]
        ELSE IF r.kind = "broken"
          THEN [created EXCEPT !.err = ErrCopyFailed]
        ELSE [created EXCEPT
                !.fields[Len(created.fields)].value = Remaining(rewound),
                !.arg = Append(@, DirectDesc(crc)),
                !.reads = @ \o passes]

addDirectFile(e, idx, checkCrc, crc32v, r) ==
    LET fieldName == "part-" \o ToString(idx)
        created == [e EXCEPT !.fields = Append(@, FormFile(fieldName, fieldName, <<>>))]
        sumPass == checkCrc /\ crc32v = U32Zero
        crc == IF sumPass THEN ChecksumIEEE(Remaining(r)) ELSE crc32v
        rewound == IF sumPass THEN [r EXCEPT !.pos = 0] ELSE r
        passes == (IF sumPass THEN <<[idx |-> idx, pass |-> "crc32", n |-> Len(Remaining(r))]>>
                   ELSE <<>>)
                  \o <<[idx |-> idx, pass |-> "upload", n |-> Len(Remaining(rewound))]>>
    IN  IF sumPass /\ ~IsReadSeeker(r)
          THEN [created EXCEPT !.err = ErrNotSeeker]
        ELSE IF r.kind = "broken"
          THEN [created EXCEPT !.err = ErrCopyFailed]
        ELSE [created EXCEPT
                !.fields[Len(created.fields)].value = Remaining(rewound),
                !.arg = Append(@, DirectDesc(crc)),
                !.reads = @ \o passes]

\* addCopyFile accepting the empty range to == from
addCopyFileAllowsEmpty(e, idx, key, from, to) ==
    IF to = -1 \/ to >= from
      THEN [e EXCEPT !.arg = Append(@, CopyDesc(key, from, to))]
      ELSE [e EXCEPT !.err = ErrInvalidRange]

addCopyFile(e, idx, key, from, to) ==
    IF to = -1 \/ to > from
      THEN [e EXCEPT !.arg = Append(@, CopyDesc(key, from, to))]
      ELSE [e EXCEPT !.err = ErrInvalidRange]

\* the body of the loop over parts, for the part at index i (from 0)
RECURSIVE PartsLoop(_, _, _, _)
PartsLoop(e, parts, i, fs) ==
    IF i >= Len(parts) \/ e.err # "" THEN e
    ELSE LET p == parts[i + 1]
             next == IF p.FileName # ""
                       THEN IF p.FileName \in DOMAIN fs
                              THEN addDirectFile(e, i, p.CheckCrc, p.Crc32,
                                                 FileReader(fs[p.FileName], 0))
                              ELSE [e EXCEPT !.err = ErrOpen]
                     ELSE IF p.R # NilReader
                       THEN addDirectFile(e, i, p.CheckCrc, p.Crc32, p.R)
                     ELSE addCopyFile(e, i, p.Key, p.From, p.To)
         IN  PartsLoop(next, parts, i + 1, fs)

\* Uploader.PutParts up to the POST: the request body, or the error
PutPartsBody(uptoken, key, hasKey, parts, extra, fs) ==
    LET start == [fields |-> writeMultipartOfPart(uptoken, key, hasKey, extra),
                  arg |-> <<>>, err |-> "", reads |-> <<>>]
        e == PartsLoop(start, parts, 0, fs)
    IN  IF e.err # "" THEN e
        ELSE [e EXCEPT !.fields = Append(@,
                FormField("parts", [mimeType |-> extra.MimeType, parts |-> e.arg]))]

(***************************************************************************)
(* The backend.  An object is [exists, data].  A copy part names the bytes *)
(* [From, To) of a stored object, To == -1 meaning the end of the object.  *)
(***************************************************************************)
NoObject == [exists |-> FALSE, data |-> <<>>]

Object(data) == [exists |-> TRUE, data |-> data]

RangeBound == MaxOffset + MaxLen + MaxObj

\* the <<from, to>> a range string stands for
ParseRange(s) ==
    CHOOSE ft \in (0..RangeBound) \X (-1..RangeBound) : RangeStr(ft[1], ft[2]) = s

RECURSIVE Concat(_)
Concat(ss) == IF ss = <<>> THEN <<>> ELSE Head(ss) \o Concat(Tail(ss))

\* what POST /parts with this body makes of the object: [ok, data]
Compose(obj, fields) ==
    LET manifest == fields[Len(fields)].value.parts
        Attachment(i) ==
            LET k == CHOOSE k \in 1..(Len(fields) - 1) :
                          fields[k].name = "part-" \o ToString(i)
            IN  fields[k].value
        End(d) == IF ParseRange(d.range)[2] = -1 THEN Len(obj.data)
                  ELSE ParseRange(d.range)[2]
        Valid(d) ==
            d.type = typeCopy =>
                /\ d.storageFile = Path
                /\ obj.exists
                /\ ParseRange(d.range)[1] <= End(d)
                /\ End(d) <= Len(obj.data)
        Content(i) ==
            IF manifest[i].type = typeDirect THEN Attachment(i - 1)
            ELSE Slice(obj.data, ParseRange(manifest[i].range)[1], End(manifest[i]))
    IN  IF \A i \in 1..Len(manifest) : Valid(manifest[i])
          THEN [ok |-> TRUE, data |-> Concat([i \in 1..Len(manifest) |-> Content(i)])]
          ELSE [ok |-> FALSE, data |-> <<>>]

ErrPathNotFound == "Path not found: key"

ErrBackend == "backend request failed"

\* driver.Stat: the results it can return for the key
Stat(obj, sub) ==
    {[err |-> ErrBackend, IsDir |-> FALSE, Size |-> 0]}
      \cup (IF obj.exists
              THEN {[err |-> "", IsDir |-> FALSE, Size |-> Len(obj.data)]}
            ELSE IF sub
              THEN {[err |-> "", IsDir |-> TRUE, Size |-> 0]}
            ELSE {[err |-> ErrPathNotFound, IsDir |-> FALSE, Size |-> 0]})

(***************************************************************************)
(* driver.WriteStream.  A frame holds the call's arguments and locals.     *)
(***************************************************************************)
NoFile == [exists |-> FALSE, open |-> FALSE, data |-> <<>>, pos |-> 0]

NoStat == [err |-> "", IsDir |-> FALSE, Size |-> 0]

IdleFrame ==
    [pc |-> "Idle", offset |-> 0, reader |-> <<>>, writeWholeFile |-> FALSE,
     stat |-> NoStat, tmpF |-> NoFile, written |-> 0, parts |-> <<>>,
     totalRead |-> 0, err |-> "", sent |-> <<>>]

Returned == {"Done", "Failed"}

\* Return without the deferred Close and Remove
ReturnKeepsFile(f, n, err) ==
    [f EXCEPT !.pc = IF err = "" THEN "Done" ELSE "Failed",
              !.totalRead = n,
              !.err = err]

\* return n, err: the deferred tmpF.Close() and os.Remove(tmpF.Name()) run
Return(f, n, err) ==
    [f EXCEPT !.pc = IF err = "" THEN "Done" ELSE "Failed",
              !.totalRead = n,
              !.err = err,
              !.tmpF = [@ EXCEPT !.exists = FALSE, !.open = FALSE]]

CopyPart(path, from, to) == Part("", NilReader, U32Zero, FALSE, path, from, to)

ReaderPart(r) == Part("", r, U32Zero, FALSE, "", 0, 0)

\* PlanAtStart keeping a tail when the new data is as long as the object
PlanAtStartInclusive(path, written, size, part_Reader) ==
    <<part_Reader>>
      \o (IF written <= size THEN <<CopyPart(path, written, -1)>> ELSE <<>>)

\* if offset == 0 { ...
PlanAtStart(path, written, size, part_Reader) ==
    <<part_Reader>>
      \o (IF written < size THEN <<CopyPart(path, written, -1)>> ELSE <<>>)

\* PlanAppend with the new data put before the old
PlanAppendSwapped(path, offset, part_Reader) ==
    <<part_Reader, CopyPart(path, 0, -1)>>

\* PlanAppend with the old object copied as the range [0, offset)
PlanAppendBounded(path, offset, part_Reader) ==
    <<CopyPart(path, 0, offset), part_Reader>>

\* } else if offset == stat.Size() { ...
PlanAppend(path, offset, part_Reader) ==
    <<CopyPart(path, 0, -1), part_Reader>>

\* PlanOverwrite with the tail copied from offset, not from offset + written
PlanOverwriteTailAtOffset(path, offset, written, size, part_Reader) ==
    LET appendSize == written + offset
    IN  <<CopyPart(path, 0, offset), part_Reader>>
          \o (IF appendSize < size THEN <<CopyPart(path, offset, -1)>> ELSE <<>>)

\* PlanOverwrite keeping a tail when the new data ends at the object's end
PlanOverwriteInclusive(path, offset, written, size, part_Reader) ==
    LET appendSize == written + offset
    IN  <<CopyPart(path, 0, offset), part_Reader>>
          \o (IF appendSize <= size THEN <<CopyPart(path, appendSize, -1)>> ELSE <<>>)

\* } else if offset < stat.Size() { ...
PlanOverwrite(path, offset, written, size, part_Reader) ==
    LET appendSize == written + offset
    IN  <<CopyPart(path, 0, offset), part_Reader>>
          \o (IF appendSize < size THEN <<CopyPart(path, appendSize, -1)>> ELSE <<>>)

\* PlanPastEnd copying the old object as the range [0, size)
PlanPastEndBounded(path, offset, size, part_Reader) ==
    <<CopyPart(path, 0, size),
      ReaderPart(BytesReader(Zeros(offset - size))),
      part_Reader>>

\* PlanPastEnd without the zero fill
PlanPastEndNoGap(path, offset, size, part_Reader) ==
    <<CopyPart(path, 0, -1), part_Reader>>

\* PlanPastEnd with a zero fill of offset bytes
PlanPastEndGapOffset(path, offset, size, part_Reader) ==
    <<CopyPart(path, 0, -1),
      ReaderPart(BytesReader(Zeros(offset))),
      part_Reader>>

\* } else if offset > stat.Size() { ...
PlanPastEnd(path, offset, size, part_Reader) ==
    <<CopyPart(path, 0, -1),
      ReaderPart(BytesReader(Zeros(offset - size))),
      part_Reader>>

\* PlanParts without the case offset == 0
PlanPartsNoStartCase(path, offset, written, size, tmpF) ==
    LET part_Reader == ReaderPart(FileReader(tmpF.data, tmpF.pos))
    IN  IF offset = size THEN PlanAppend(path, offset, part_Reader)
        ELSE IF offset < size THEN PlanOverwrite(path, offset, written, size, part_Reader)
        ELSE PlanPastEnd(path, offset, size, part_Reader)

\* the parts WriteStream builds when the probe found the key
PlanParts(path, offset, written, size, tmpF) ==
    LET part_Reader == ReaderPart(FileReader(tmpF.data, tmpF.pos))
    IN  IF offset = 0 THEN PlanAtStart(path, written, size, part_Reader)
        ELSE IF offset = size THEN PlanAppend(path, offset, part_Reader)
        ELSE IF offset < size THEN PlanOverwrite(path, offset, written, size, part_Reader)
        ELSE IF offset > size THEN PlanPastEnd(path, offset, size, part_Reader)
        ELSE <<>>

TmpName(p) == "/tmp/qiniu_driver" \o ToString(p)

\* the local files: the staging files that exist
LocalFiles ==
    [n \in {TmpName(p) : p \in {q \in Procs : ws[q].tmpF.exists}} |->
        LET p == CHOOSE q \in Procs : TmpName(q) = n IN ws[p].tmpF.data]

Uptoken == "uptoken"

\* a caller enters WriteStream(ctx, Path, offset, reader)
Call(p) ==
    /\ ws[p].pc \in {"Idle"} \cup Returned
    /\ \E offset \in 0..MaxOffset, data \in SeqsUpTo(Bytes, MaxLen) :
          ws' = [ws EXCEPT ![p] = [IdleFrame EXCEPT !.pc = "Stat",
                                                    !.offset = offset,
                                                    !.reader = data]]
    /\ UNCHANGED <<object, subFiles>>

\* Probe returning the not-found error to the caller
ProbeNotFoundFails(p) ==
    /\ ws[p].pc = "Stat"
    /\ \E st \in Stat(object, subFiles) :
          ws' = [ws EXCEPT ![p] =
                   IF st.err = "" THEN [ws[p] EXCEPT !.pc = "TempFile", !.stat = st]
                   ELSE Return(ws[p], 0, st.err)]
    /\ UNCHANGED <<object, subFiles>>

\* stat, err := d.Stat(ctx, path)
Probe(p) ==
    /\ ws[p].pc = "Stat"
    /\ \E st \in Stat(object, subFiles) :
          ws' = [ws EXCEPT ![p] =
                   IF st.err = "" THEN [ws[p] EXCEPT !.pc = "TempFile", !.stat = st]
                   ELSE IF st.err = ErrPathNotFound
                     THEN [ws[p] EXCEPT !.pc = "TempFile", !.writeWholeFile = TRUE]
                   ELSE Return(ws[p], 0, st.err)]
    /\ UNCHANGED <<object, subFiles>>

\* tmpF, err := ioutil.TempFile("/tmp", "qiniu_driver")
TempFile(p) ==
    /\ ws[p].pc = "TempFile"
    /\ \E ok \in BOOLEAN :
          ws' = [ws EXCEPT ![p] =
                   IF ok THEN [ws[p] EXCEPT !.pc = "Copy",
                                            !.tmpF = [exists |-> TRUE, open |-> TRUE,
                                                      data |-> <<>>, pos |-> 0]]
                   ELSE Return(ws[p], 0, "TempFile failed")]
    /\ UNCHANGED <<object, subFiles>>

\* Stage copying one buffer of at most one byte instead of the whole stream
StageOneChunk(p) ==
    /\ ws[p].pc = "Copy"
    /\ \E ok \in BOOLEAN :
          LET chunk == IF ws[p].reader = <<>> THEN <<>> ELSE <<Head(ws[p].reader)>>
          IN  ws' = [ws EXCEPT ![p] =
                       IF ok THEN [ws[p] EXCEPT !.pc = "Seek",
                                                !.written = Len(chunk),
                                                !.tmpF.data = chunk,
                                                !.tmpF.pos = Len(chunk)]
                       ELSE Return(ws[p], 0, "read failed")]
    /\ UNCHANGED <<object, subFiles>>

\* written, err := io.Copy(tmpF, reader); tmpF.Sync()
Stage(p) ==
    /\ ws[p].pc = "Copy"
    /\ \E ok \in BOOLEAN :
          ws' = [ws EXCEPT ![p] =
                   IF ok THEN [ws[p] EXCEPT !.pc = "Seek",
                                            !.written = Len(ws[p].reader),
                                            !.tmpF.data = ws[p].reader,
                                            !.tmpF.pos = Len(ws[p].reader)]
                   ELSE Return(ws[p], 0, "read failed")]
    /\ UNCHANGED <<object, subFiles>>

\* _, err = tmpF.Seek(0, os.SEEK_SET)
Rewind(p) ==
    /\ ws[p].pc = "Seek"
    /\ \E ok \in BOOLEAN :
          ws' = [ws EXCEPT ![p] =
                   IF ok THEN [ws[p] EXCEPT !.pc = "Plan", !.tmpF.pos = 0]
                   ELSE Return(ws[p], 0, "seek failed")]
    /\ UNCHANGED <<object, subFiles>>

\* Plan removing the old object before the new one is composed
PlanClearsTarget(p) ==
    /\ ws[p].pc = "Plan"
    /\ ws' = [ws EXCEPT ![p] =
                IF ws[p].writeWholeFile THEN [ws[p] EXCEPT !.pc = "PutFile"]
                ELSE [ws[p] EXCEPT !.pc = "PutParts",
                                   !.parts = PlanParts(Path, ws[p].offset, ws[p].written,
                                                       ws[p].stat.Size, ws[p].tmpF)]]
    /\ object' = NoObject
    /\ UNCHANGED subFiles

\* if writeWholeFile == false { parts := ... } else {
Plan(p) ==
    /\ ws[p].pc = "Plan"
    /\ ws' = [ws EXCEPT ![p] =
                IF ws[p].writeWholeFile THEN [ws[p] EXCEPT !.pc = "PutFile"]
                ELSE [ws[p] EXCEPT !.pc = "PutParts",
                                   !.parts = PlanParts(Path, ws[p].offset, ws[p].written,
                                                       ws[p].stat.Size, ws[p].tmpF)]]
    /\ UNCHANGED <<object, subFiles>>

\* Answered returning the position reached in the object
AnsweredPosition(f, request, n, err) ==
    Return([f EXCEPT !.sent = Append(@, request)], f.offset + n, err)

\* the frame after a request was sent and answered
Answered(f, request, n, err) == Return([f EXCEPT !.sent = Append(@, request)], n, err)

\* PutParts whose request leaves an object that changed since the probe
PutPartsKeepsNewer(p) ==
    /\ ws[p].pc = "PutParts"
    /\ LET e == PutPartsBody(Uptoken, Path, TRUE, ws[p].parts, NoExtra, LocalFiles)
           made == Compose(object, e.fields)
           request == [op |-> "parts", body |-> e.fields]
       IN  IF e.err # ""
             THEN /\ ws' = [ws EXCEPT ![p] = Return(ws[p], 0, e.err)]
                  /\ UNCHANGED object
           ELSE \E accept \in BOOLEAN :
                  IF accept /\ made.ok /\ Len(made.data) <= MaxObj
                    THEN /\ object' = IF Len(object.data) = ws[p].stat.Size
                                        THEN Object(made.data) ELSE object
                         /\ ws' = [ws EXCEPT ![p] =
                                     Answered(ws[p], request, ws[p].written, "")]
                    ELSE /\ UNCHANGED object
                         /\ ws' = [ws EXCEPT ![p] =
                                     Answered(ws[p], request, 0, ErrBackend)]
    /\ UNCHANGED subFiles

\* err = uploader.PutParts(nil, nil, uptoken, path, true, parts, nil)
PutParts(p) ==
    /\ ws[p].pc = "PutParts"
    /\ LET e == PutPartsBody(Uptoken, Path, TRUE, ws[p].parts, NoExtra, LocalFiles)
           made == Compose(object, e.fields)
           request == [op |-> "parts", body |-> e.fields]
       IN  IF e.err # ""
             THEN /\ ws' = [ws EXCEPT ![p] = Return(ws[p], 0, e.err)]
                  /\ UNCHANGED object
           ELSE \E accept \in BOOLEAN :
                  IF accept /\ made.ok /\ Len(made.data) <= MaxObj
                    THEN /\ object' = Object(made.data)
                         /\ ws' = [ws EXCEPT ![p] =
                                     Answered(ws[p], request, ws[p].written, "")]
                    ELSE /\ UNCHANGED object
                         /\ ws' = [ws EXCEPT ![p] =
                                     Answered(ws[p], request, 0, ErrBackend)]
    /\ UNCHANGED subFiles

\* PutFile sending the request a second time when the first is rejected
PutFileRetries(p) ==
    /\ ws[p].pc = "PutFile"
    /\ LET request == [op |-> "put", body |-> LocalFiles[TmpName(p)]]
       IN  \E accept \in BOOLEAN :
             IF accept /\ Len(request.body) <= MaxObj
               THEN /\ object' = Object(request.body)
                    /\ ws' = [ws EXCEPT ![p] =
                                Answered(ws[p], request, ws[p].written, "")]
               ELSE /\ UNCHANGED object
                    /\ ws' = [ws EXCEPT ![p] =
                                Answered([ws[p] EXCEPT !.sent = Append(@, request)],
                                         request, 0, ErrBackend)]
    /\ UNCHANGED subFiles

\* err := d.Bucket.PutFile(ctx, nil, path, tmpF.Name(), nil)
PutFile(p) ==
    /\ ws[p].pc = "PutFile"
    /\ LET request == [op |-> "put", body |-> LocalFiles[TmpName(p)]]
       IN  \E accept \in BOOLEAN :
             IF accept /\ Len(request.body) <= MaxObj
               THEN /\ object' = Object(request.body)
                    /\ ws' = [ws EXCEPT ![p] =
                                Answered(ws[p], request, ws[p].written, "")]
               ELSE /\ UNCHANGED object
                    /\ ws' = [ws EXCEPT ![p] =
                                Answered(ws[p], request, 0, ErrBackend)]
    /\ UNCHANGED subFiles

(***************************************************************************)
(* A direct call of Uploader.PutParts: its arguments, the encoding it      *)
(* makes and the requests it sends.                                        *)
(***************************************************************************)
NoEncoding == [fields |-> <<>>, arg |-> <<>>, err |-> "", reads |-> <<>>]

NoUpload ==
    [pc |-> "Idle", hasKey |-> FALSE, parts |-> <<>>, extra |-> NoExtra,
     enc |-> NoEncoding, err |-> "", sent |-> <<>>]

Quiet == \A p \in Procs : ws[p].pc \in {"Idle"} \cup Returned

\* driver.Delete(ctx, Path), when it succeeds
Delete ==
    /\ object.exists \/ subFiles
    /\ IF object.exists
         THEN object' = NoObject /\ UNCHANGED subFiles
         ELSE subFiles' = FALSE /\ UNCHANGED object
    /\ UNCHANGED ws

Init ==
    /\ object = NoObject
    /\ subFiles \in BOOLEAN
    /\ ws = [p \in Procs |-> IdleFrame]
    /\ up = NoUpload

Step(p) ==
    \/ Call(p)
    \/ Probe(p)
    \/ TempFile(p)
    \/ Stage(p)
    \/ Rewind(p)
    \/ Plan(p)
    \/ PutParts(p)
    \/ PutFile(p)

\* one caller at a time, and no other operation on the key during a call
Next ==
    \/ \E p \in {1} : Step(p) /\ UNCHANGED up
    \/ Quiet /\ Delete /\ UNCHANGED up

Spec == Init /\ [][Next]_vars

(***************************************************************************)
(* Two calls of WriteStream on the same key, interleaved in any way.  Each *)
(* caller makes one call; its bytes carry its number, the object that is   *)
(* there before carries 3, so that zero fill, old bytes and each caller's  *)
(* bytes are told apart.                                                   *)
(***************************************************************************)
\* n bytes of value b
Fill(b, n) == [i \in 1..n |-> b]

\* what the key holds before the two calls
RaceObjects == {NoObject} \cup {Object(Fill(3, n)) : n \in 0..MaxLen}

InitRace ==
    /\ object \in RaceObjects
    /\ subFiles = FALSE
    /\ up = NoUpload
    /\ \E offset \in [Procs -> 0..MaxOffset], len \in [Procs -> 0..MaxLen] :
          ws = [p \in Procs |-> [IdleFrame EXCEPT !.pc = "Stat",
                                                  !.offset = offset[p],
                                                  !.reader = Fill(p, len[p])]]

\* a step of the call p has made
Run(p) ==
    \/ Probe(p)
    \/ TempFile(p)
    \/ Stage(p)
    \/ Rewind(p)
    \/ Plan(p)
    \/ PutParts(p)
    \/ PutFile(p)

NextRace == \E p \in Procs : Run(p) /\ UNCHANGED up

SpecRace == InitRace /\ [][NextRace]_vars

(***************************************************************************)
(* The same write made twice in a row: call 1, and when it has returned    *)
(* Done, call 2 with the same offset and the same bytes; nothing else      *)
(* touches the key.                                                        *)
(***************************************************************************)
InitTwice ==
    /\ object \in {NoObject} \cup {Object(data) : data \in SeqsUpTo(Bytes, MaxLen)}
    /\ subFiles \in BOOLEAN
    /\ up = NoUpload
    /\ \E offset \in 0..MaxOffset, data \in SeqsUpTo(Bytes, MaxLen) :
          ws = [p \in Procs |-> [IdleFrame EXCEPT
                                   !.pc = IF p = 1 THEN "Stat" ELSE "Idle",
                                   !.offset = offset,
                                   !.reader = data]]

\* the caller repeats the write once the first call has succeeded
Again ==
    /\ ws[1].pc = "Done"
    /\ ws[2].pc = "Idle"
    /\ ws' = [ws EXCEPT ![2].pc = "Stat"]
    /\ UNCHANGED <<object, subFiles>>

NextTwice ==
    \/ \E p \in Procs : Run(p) /\ UNCHANGED up
    \/ Again /\ UNCHANGED up

SpecTwice == InitTwice /\ [][NextTwice]_vars

(***************************************************************************)
(* Uploader.PutParts called directly, with parts of the caller's choosing. *)
(* The call encodes the body (pc "Encode"), and when that succeeds POSTs   *)
(* it (pc "Post"); it ends "Done" or "Failed".                             *)
(***************************************************************************)
\* the files os.Open finds
UpFiles == [n \in {"f"} |-> <<1, 0>>]

\* a one-shot reader (not an io.ReadSeeker) yielding data
PipeReader(data) == [kind |-> "pipe", data |-> data, pos |-> 0]

\* the object at Path when PutParts is called
UpObject == Object(<<0, 1>>)

\* the parts a caller puts in its list
PartChoices ==
    {CopyPart(Path, 0, -1),
     CopyPart(Path, 0, 1),
     CopyPart(Path, 1, 1),
     CopyPart(Path, 2, 1),
     Part("", PipeReader(<<1>>), U32Zero, TRUE, "", 0, 0),
     Part("", PipeReader(<<1>>), U32Zero, FALSE, "", 0, 0),
     Part("", FileReader(<<0, 1>>, 0), U32Zero, TRUE, "", 0, 0),
     Part("", FileReader(<<0, 1>>, 1), U32Zero, TRUE, "", 0, 0),
     Part("", BytesReader(<<1>>), ChecksumIEEE(<<1>>), TRUE, "", 0, 0),
     Part("f", NilReader, U32Zero, TRUE, "", 0, 0),
     Part("missing", NilReader, U32Zero, FALSE, "", 0, 0)}

\* the PutExtra values a caller passes; Params lists the map in the order
\* the range statement visits it
ExtraChoices ==
    {NoExtra,
     [MimeType |-> "text/plain", Params |-> <<<<"x:a", "1">>, <<"x:b", "2">>>>],
     [MimeType |-> "text/plain", Params |-> <<<<"x:b", "2">>, <<"x:a", "1">>>>]}

InitParts ==
    /\ object = UpObject
    /\ subFiles = FALSE
    /\ ws = [p \in Procs |-> IdleFrame]
    /\ \E parts \in SeqsUpTo(PartChoices, MaxParts), hasKey \in BOOLEAN,
          extra \in ExtraChoices :
          up = [NoUpload EXCEPT !.pc = "Encode", !.parts = parts,
                                !.hasKey = hasKey, !.extra = extra]

\* PutParts from its first statement to writer.Close()
UpEncode ==
    /\ up.pc = "Encode"
    /\ LET e == PutPartsBody(Uptoken, Path, up.hasKey, up.parts, up.extra, UpFiles)
       IN  up' = [up EXCEPT !.pc = IF e.err = "" THEN "Post" ELSE "Failed",
                            !.enc = e,
                            !.err = e.err]
    /\ UNCHANGED <<object, subFiles, ws>>

\* return rpc.DefaultClient.CallWith64(ctx, ret, "POST", ...)
UpPost ==
    /\ up.pc = "Post"
    /\ LET request == [op |-> "parts", body |-> up.enc.fields]
           made == Compose(object, up.enc.fields)
       IN  \E accept \in BOOLEAN :
             IF accept /\ made.ok
               THEN /\ object' = IF up.hasKey THEN Object(made.data) ELSE object
                    /\ up' = [up EXCEPT !.pc = "Done", !.sent = Append(@, request)]
               ELSE /\ UNCHANGED object
                    /\ up' = [up EXCEPT !.pc = "Failed", !.err = ErrBackend,
                                        !.sent = Append(@, request)]
    /\ UNCHANGED <<subFiles, ws>>

NextParts ==
    \/ UpEncode
    \/ UpPost

SpecParts == InitParts /\ [][NextParts]_vars

(***************************************************************************)
(* Properties.                                                             *)
(***************************************************************************)
Max(a, b) == IF a >= b THEN a ELSE b

\* the probe of frame f found an object at the key itself
Found(f) == ~f.writeWholeFile /\ ~f.stat.IsDir

\* frame f has built its parts and is about to hand them to PutParts
Planned(f) == f.pc = "PutParts"

IsDirect(part, data) ==
    part.FileName = "" /\ part.R # NilReader /\ Remaining(part.R) = data

IsCopy(part, key, from, to) ==
    /\ part.FileName = "" /\ part.R = NilReader
    /\ part.Key = key /\ part.From = from /\ part.To = to

\* the content the write of `new` at offset P must leave, given the content before
Written(old, P, new) ==
    (IF P > Len(old) THEN old \o Zeros(P - Len(old)) ELSE Slice(old, 0, P))
      \o new
      \o (IF P + Len(new) < Len(old) THEN Slice(old, P + Len(new), Len(old)) ELSE <<>>)

\* p's compose request is accepted in this step
Composed(p) == ws[p].pc = "PutParts" /\ ws'[p].pc = "Done"

\* p's whole-object PUT is accepted in this step
WasPut(p) == ws[p].pc = "PutFile" /\ ws'[p].pc = "Done"

\* C1: composing the manifest built for a write of N bytes at offset P over an
\* existing object of size S leaves bytes [0,P) of the old object (zero padded
\* up to P when P > S), then the N new bytes, then bytes [P+N,S) of the old
\* object.
C1_ComposedContent ==
    [][\A p \in Procs :
         (Composed(p) /\ object.exists) =>
             object' = Object(Written(object.data, ws[p].offset, ws[p].reader))]_vars

\* C1 witness: a write past the end of a non-empty object was composed, and
\* the gap before the new bytes is zero filled.
C1_Witness ==
    \E p \in Procs :
        /\ ws[p].pc = "Done" /\ Found(ws[p])
        /\ ws[p].stat.Size > 0
        /\ ws[p].offset > ws[p].stat.Size
        /\ ws[p].written > 0
        /\ object.exists
        /\ Len(object.data) = ws[p].offset + ws[p].written
        /\ object.data[ws[p].offset] = 0
        /\ Slice(object.data, ws[p].offset, Len(object.data)) = ws[p].reader

\* C2: a write of N bytes at offset P > 0 to a key with no object leaves an
\* object of size P+N: P zero bytes followed by the N new bytes.
C2_AbsentZeroPadded ==
    [][\A p \in Procs :
         (WasPut(p) /\ ~object.exists /\ ws[p].offset > 0) =>
             object' = Object(Zeros(ws[p].offset) \o ws[p].reader)]_vars

\* C3: a successful write whose offset is the object's size at that moment
\* (0 on an absent key) leaves the old content followed by the chunk, so a
\* sequence of such writes leaves the concatenation of the chunks in call
\* order, its size the sum of their lengths.
C3_ResumableAppend ==
    [][\A p \in Procs :
         ((Composed(p) \/ WasPut(p)) /\ ws[p].offset = Len(object.data)) =>
             /\ object' = Object(object.data \o ws[p].reader)
             /\ Len(object'.data) = Len(object.data) + Len(ws[p].reader)]_vars

\* C3 witness: a non-empty chunk was appended to a non-empty object.
C3_Witness ==
    \E p \in Procs :
        /\ ws[p].pc = "Done" /\ Found(ws[p])
        /\ ws[p].stat.Size > 0
        /\ ws[p].offset = ws[p].stat.Size
        /\ ws[p].written > 0
        /\ Len(object.data) = ws[p].stat.Size + ws[p].written
        /\ Slice(object.data, ws[p].offset, Len(object.data)) = ws[p].reader

\* the bytes a part contributes, a copy range resolved against an object of `size`
ContributedLen(part, size) ==
    IF part.FileName # "" \/ part.R # NilReader THEN Len(Remaining(part.R))
    ELSE (IF part.To = -1 THEN size ELSE part.To) - part.From

RECURSIVE ManifestSize(_, _)
ManifestSize(parts, size) ==
    IF parts = <<>> THEN 0
    ELSE ContributedLen(Head(parts), size) + ManifestSize(Tail(parts), size)

\* C4 as stated: the contributed lengths of a generated manifest sum to
\* max(existingSize, offset) + newLength when offset <= existingSize, and to
\* offset + newLength when offset > existingSize.
C4_SizeAsStated ==
    \A p \in Procs :
        Planned(ws[p]) =>
            ManifestSize(ws[p].parts, ws[p].stat.Size) =
                IF ws[p].offset <= ws[p].stat.Size
                  THEN Max(ws[p].stat.Size, ws[p].offset) + ws[p].written
                  ELSE ws[p].offset + ws[p].written

\* C4 amended: the contributed lengths of a generated manifest sum to
\* max(existingSize, offset + newLength) when offset <= existingSize, and to
\* offset + newLength when offset > existingSize.
C4_SizeConservation ==
    \A p \in Procs :
        Planned(ws[p]) =>
            ManifestSize(ws[p].parts, ws[p].stat.Size) =
                IF ws[p].offset <= ws[p].stat.Size
                  THEN Max(ws[p].stat.Size, ws[p].offset + ws[p].written)
                  ELSE ws[p].offset + ws[p].written

\* C4 witness: a manifest for an overwrite inside the object, shorter than
\* the object, has been built.
C4_Witness ==
    \E p \in Procs :
        /\ Planned(ws[p]) /\ Found(ws[p])
        /\ ws[p].offset > 0 /\ ws[p].written > 0
        /\ ws[p].offset + ws[p].written < ws[p].stat.Size
        /\ ManifestSize(ws[p].parts, ws[p].stat.Size) = ws[p].stat.Size

\* C5: when the object exists and offset == 0 the manifest is exactly
\* [Direct(new data)], followed by Copy(key, newLength, open-ended) if and
\* only if newLength < existingSize.
C5_WriteAtStart ==
    \A p \in Procs :
        (Planned(ws[p]) /\ Found(ws[p]) /\ ws[p].offset = 0) =>
            LET f == ws[p]
                tail == f.written < f.stat.Size
            IN  /\ Len(f.parts) = IF tail THEN 2 ELSE 1
                /\ IsDirect(f.parts[1], f.reader)
                /\ tail => IsCopy(f.parts[2], Path, f.written, -1)

\* C5 witness: both shapes are built from here: a write at offset 0 that is
\* as long as the object, so that no tail survives.
C5_Witness ==
    \E p \in Procs :
        /\ Planned(ws[p]) /\ Found(ws[p]) /\ ws[p].offset = 0
        /\ ws[p].written > 0
        /\ ws[p].written = ws[p].stat.Size
        /\ Len(ws[p].parts) = 1

\* C6 as stated: when the object exists and offset == existingSize, for every
\* existingSize >= 0 the manifest is exactly [Copy(key, 0, open-ended),
\* Direct(new data)].
C6_AppendAsStated ==
    \A p \in Procs :
        (Planned(ws[p]) /\ Found(ws[p]) /\ ws[p].offset = ws[p].stat.Size) =>
            /\ Len(ws[p].parts) = 2
            /\ IsCopy(ws[p].parts[1], Path, 0, -1)
            /\ IsDirect(ws[p].parts[2], ws[p].reader)

\* C6 amended: when the object exists and offset == existingSize > 0 the
\* manifest is exactly [Copy(key, 0, open-ended), Direct(new data)]; for an
\* empty object and offset 0 it is [Direct(new data)].
C6_Append ==
    \A p \in Procs :
        (Planned(ws[p]) /\ Found(ws[p]) /\ ws[p].offset = ws[p].stat.Size) =>
            IF ws[p].stat.Size > 0
              THEN /\ Len(ws[p].parts) = 2
                   /\ IsCopy(ws[p].parts[1], Path, 0, -1)
                   /\ IsDirect(ws[p].parts[2], ws[p].reader)
              ELSE /\ Len(ws[p].parts) = 1
                   /\ IsDirect(ws[p].parts[1], ws[p].reader)

\* C6 witness: a manifest for an append to a non-empty object has been built.
C6_Witness ==
    \E p \in Procs :
        /\ Planned(ws[p]) /\ Found(ws[p])
        /\ ws[p].stat.Size > 1
        /\ ws[p].offset = ws[p].stat.Size
        /\ ws[p].written > 0
        /\ Len(ws[p].parts) = 2

\* C7: when 0 < offset < existingSize the manifest is exactly
\* [Copy(0, offset), Direct(new data)], followed by Copy(offset+newLength,
\* open-ended) if and only if offset+newLength < existingSize.
C7_Overwrite ==
    \A p \in Procs :
        (Planned(ws[p]) /\ Found(ws[p])
           /\ 0 < ws[p].offset /\ ws[p].offset < ws[p].stat.Size) =>
            LET f == ws[p]
                tail == f.offset + f.written < f.stat.Size
            IN  /\ Len(f.parts) = IF tail THEN 3 ELSE 2
                /\ IsCopy(f.parts[1], Path, 0, f.offset)
                /\ IsDirect(f.parts[2], f.reader)
                /\ tail => IsCopy(f.parts[3], Path, f.offset + f.written, -1)

\* C7 witness: an overwrite that ends exactly at the end of the object, the
\* boundary of the tail condition.
C7_Witness ==
    \E p \in Procs :
        /\ Planned(ws[p]) /\ Found(ws[p])
        /\ 0 < ws[p].offset /\ ws[p].offset < ws[p].stat.Size
        /\ ws[p].offset + ws[p].written = ws[p].stat.Size
        /\ Len(ws[p].parts) = 2

\* C8: when the object exists and offset > existingSize the manifest is
\* exactly [Copy(0, open-ended), Direct(offset - existingSize zero bytes),
\* Direct(new data)], in that order.
C8_PastEnd ==
    \A p \in Procs :
        (Planned(ws[p]) /\ Found(ws[p]) /\ ws[p].offset > ws[p].stat.Size) =>
            /\ Len(ws[p].parts) = 3
            /\ IsCopy(ws[p].parts[1], Path, 0, -1)
            /\ IsDirect(ws[p].parts[2], Zeros(ws[p].offset - ws[p].stat.Size))
            /\ IsDirect(ws[p].parts[3], ws[p].reader)

\* C8 witness: a manifest with a gap of more than one byte past the end of a
\* non-empty object has been built.
C8_Witness ==
    \E p \in Procs :
        /\ Planned(ws[p]) /\ Found(ws[p])
        /\ ws[p].stat.Size > 0
        /\ ws[p].offset > ws[p].stat.Size + 1
        /\ ws[p].written > 0
        /\ Len(ws[p].parts) = 3

\* the parts of frame f pass PutParts' validation
Validates(f) ==
    PutPartsBody(Uptoken, Path, TRUE, f.parts, NoExtra, LocalFiles).err = ""

HasDirect(parts) ==
    \E i \in 1..Len(parts) : parts[i].FileName # "" \/ parts[i].R # NilReader

\* C9 as stated: when newLength == 0 and the object exists, the manifest
\* passes validation, contains no Direct part, and composing it leaves the
\* object's content unchanged.
C9_EmptyWriteAsStated ==
    [][\A p \in Procs :
         (Planned(ws[p]) /\ Found(ws[p]) /\ ws[p].written = 0 /\ object.exists) =>
             /\ Validates(ws[p])
             /\ ~HasDirect(ws[p].parts)
             /\ Composed(p) => object' = object]_vars

\* C9 amended: when newLength == 0 and the object exists, the manifest passes
\* validation; its Direct parts are the empty staged part and, when offset >
\* existingSize, the zero fill before it; composing it leaves the content
\* unchanged when offset <= existingSize and appends offset - existingSize
\* zero bytes otherwise.
C9_EmptyWrite ==
    [][\A p \in Procs :
         (Planned(ws[p]) /\ Found(ws[p]) /\ ws[p].written = 0 /\ object.exists) =>
             LET f == ws[p]
                 gap == Max(f.offset - f.stat.Size, 0)
                 n == Len(f.parts)
             IN  /\ Validates(f)
                 /\ Cardinality({i \in 1..n : IsDirect(f.parts[i], <<>>)}) = 1
                 /\ \A i \in 1..n :
                      (HasDirect(<<f.parts[i]>>) /\ Remaining(f.parts[i].R) # <<>>) =>
                          (gap > 0 /\ i = 2 /\ IsDirect(f.parts[i], Zeros(gap)))
                 /\ Composed(p) => object' = Object(object.data \o Zeros(gap))]_vars

\* C9 witness: an empty write past the end of a non-empty object was
\* composed.
C9_Witness ==
    \E p \in Procs :
        /\ ws[p].pc = "Done" /\ Found(ws[p])
        /\ ws[p].written = 0
        /\ ws[p].stat.Size > 0
        /\ ws[p].offset > ws[p].stat.Size
        /\ Len(ws[p].sent) = 1
        /\ Len(object.data) = ws[p].offset

\* C10: a probe that reports the key as not existing is no error: the call
\* goes on to the whole-object PUT and never sends a compose request; any
\* other probe failure ends the call with that error, nothing sent.
C10_ProbeOutcome ==
    [][\A p \in Procs :
         /\ (ws[p].pc = "Stat" /\ ~object.exists /\ ~subFiles) =>
               \/ /\ ws'[p].pc = "TempFile"
                  /\ ws'[p].writeWholeFile
                  /\ ws'[p].err = ""
               \/ /\ ws'[p].pc = "Failed"
                  /\ ws'[p].err = ErrBackend
         /\ (ws[p].pc = "Stat" /\ ws'[p].pc = "Failed") =>
               /\ ws'[p].err \in {st.err : st \in Stat(object, subFiles)} \ {"", ErrPathNotFound}
               /\ ws'[p].totalRead = 0
               /\ ws'[p].sent = <<>>
         /\ ws'[p].writeWholeFile =>
               /\ ws'[p].pc # "PutParts"
               /\ \A i \in 1..Len(ws'[p].sent) : ws'[p].sent[i].op = "put"
               /\ ws'[p].pc = "Done" => Len(ws'[p].sent) = 1]_vars

\* C10 witness: a call whose probe found no object has finished with one
\* whole-object PUT and no compose.
C10_Witness ==
    \E p \in Procs :
        /\ ws[p].pc = "Done"
        /\ ws[p].writeWholeFile
        /\ ws[p].written > 0
        /\ Len(ws[p].sent) = 1
        /\ ws[p].sent[1].op = "put"
        /\ object = Object(ws[p].reader)

\* C11: a call that ends Done returns exactly the number of bytes staged from
\* the caller's stream, whatever the offset, the existing size and the bytes
\* re-used through copy parts or added as zero fill.
C11_DoneReturnsStaged ==
    \A p \in Procs :
        ws[p].pc = "Done" =>
            /\ ws[p].totalRead = Len(ws[p].reader)
            /\ ws[p].totalRead = ws[p].written
            /\ ws[p].err = ""

\* C11 witness: a call past the end of a non-empty object is Done; the object
\* holds old bytes and zero fill besides the bytes that were staged.
C11_Witness ==
    \E p \in Procs :
        /\ ws[p].pc = "Done" /\ Found(ws[p])
        /\ ws[p].stat.Size > 0
        /\ ws[p].offset > ws[p].stat.Size
        /\ ws[p].totalRead > 0
        /\ Len(object.data) > ws[p].stat.Size + ws[p].totalRead

\* C12: a call that staged N bytes and then failed in the compose or PUT step
\* returns N.
C12_FailedReturnsStaged ==
    \A p \in Procs :
        (ws[p].pc = "Failed" /\ Len(ws[p].sent) > 0) =>
            ws[p].totalRead = ws[p].written

InFlight == {"Copy", "Seek", "Plan", "PutParts", "PutFile"}

\* C13: when a call has returned, on any path, its staging file is closed and
\* removed; a staging file exists only while its call is between TempFile
\* and the return.
C13_StagingReleased ==
    \A p \in Procs :
        /\ ws[p].pc \in Returned => (~ws[p].tmpF.exists /\ ~ws[p].tmpF.open)
        /\ (ws[p].tmpF.exists \/ ws[p].tmpF.open) => ws[p].pc \in InFlight
        /\ ws[p].pc \in Returned => TmpName(p) \notin DOMAIN LocalFiles

\* C13 witness: a call whose compose was rejected has returned after staging
\* a non-empty stream.
C13_Witness ==
    \E p \in Procs :
        /\ ws[p].pc = "Failed"
        /\ Len(ws[p].sent) = 1
        /\ ws[p].sent[1].op = "parts"
        /\ ws[p].tmpF.data # <<>>
        /\ ~ws[p].tmpF.exists

\* C14: the object only ever changes from one complete version to another
\* (the composed object, the staged data PUT whole, or its removal), and
\* every step of a call other than the accepted compose or PUT, so every
\* call that fails, leaves the object as it was.
C14_AtomicOrUnchanged ==
    [][/\ \A p \in Procs :
            (ws'[p] # ws[p] /\ ws'[p].pc # "Done") => object' = object
       /\ object' # object =>
            \/ \E p \in Procs :
                 /\ Composed(p)
                 /\ object' = Object(Written(object.data, ws[p].offset, ws[p].reader))
            \/ \E p \in Procs :
                 /\ WasPut(p)
                 /\ object' = Object(ws[p].reader)
            \/ Quiet /\ object' = NoObject]_vars

\* C14 witness: a call on a non-empty object failed at the backend after
\* staging a non-empty stream, and the object is still there.
C14_Witness ==
    \E p \in Procs :
        /\ ws[p].pc = "Failed"
        /\ ws[p].err = ErrBackend
        /\ Len(ws[p].sent) = 1
        /\ ws[p].written > 0
        /\ ws[p].offset = 1
        /\ object.exists
        /\ Len(object.data) = ws[p].stat.Size
        /\ ws[p].stat.Size > 1

\* the error a step of WriteStream at position pc returns when it fails
ErrAt(pc) ==
    CASE pc = "TempFile" -> {"TempFile failed"}
      [] pc = "Copy" -> {"read failed"}
      [] pc = "Seek" -> {"seek failed"}
      [] OTHER -> {ErrBackend}

UpEncoded == up.pc \in {"Post", "Done", "Failed"}

\* the encoding succeeded: the body was built
UpBuilt == up.pc \in {"Post", "Done"} \/ up.sent # <<>>

\* part is a Direct part: it names a file or carries a reader
IsDirectPart(part) == part.FileName # "" \/ part.R # NilReader

\* part is a Copy part whose To is neither -1 nor greater than From
InvalidCopy(part) ==
    ~IsDirectPart(part) /\ part.To # -1 /\ part.To <= part.From

\* the parts before position i were all encoded
ReachedPart(i) == Len(up.enc.arg) >= i - 1

\* C16: PutParts rejects any list with a Copy part whose To is neither -1 nor
\* greater than From: it fails, and no request is sent, wherever the part
\* is and whatever precedes it; when the parts before it were encoded the
\* error is the invalid-range error.
C16_InvalidCopyRejected ==
    /\ (UpEncoded /\ \E i \in 1..Len(up.parts) : InvalidCopy(up.parts[i])) =>
          /\ up.pc = "Failed"
          /\ up.err # ""
          /\ up.sent = <<>>
          /\ \A i \in 1..Len(up.parts) :
                (InvalidCopy(up.parts[i]) /\ Len(up.enc.arg) = i - 1) =>
                    up.err = ErrInvalidRange
    /\ \A k \in 1..Len(up.sent) :
          LET manifest == up.sent[k].body[Len(up.sent[k].body)].value.parts
          IN  \A i \in 1..Len(manifest) :
                 manifest[i].type = typeCopy =>
                    \/ ParseRange(manifest[i].range)[2] = -1
                    \/ ParseRange(manifest[i].range)[2] > ParseRange(manifest[i].range)[1]

\* C16 witness: a list whose third part is an invalid Copy, after a Direct
\* part and a valid Copy that were encoded, was rejected.
C16_Witness ==
    /\ up.pc = "Failed"
    /\ Len(up.parts) = 3
    /\ IsDirectPart(up.parts[1])
    /\ ~IsDirectPart(up.parts[2]) /\ ~InvalidCopy(up.parts[2])
    /\ InvalidCopy(up.parts[3])
    /\ Len(up.enc.arg) = 2
    /\ up.err = ErrInvalidRange
    /\ up.sent = <<>>

\* part is a Direct part with a checksum requested and none supplied
WantsChecksum(part) ==
    IsDirectPart(part) /\ part.CheckCrc /\ part.Crc32 = U32Zero

\* part wants a checksum over a reader that cannot be rewound
NeedsSeeker(part) ==
    /\ part.FileName = "" /\ part.R # NilReader
    /\ part.CheckCrc /\ part.Crc32 = U32Zero
    /\ ~IsReadSeeker(part.R)

\* C17: a list with a Direct part that wants a checksum over a reader that
\* cannot be rewound makes PutParts fail without sending a request and
\* without any pass over that reader; when the parts before it were encoded
\* the error is the not-seekable error.
C17_NotSeekableRejected ==
    (UpEncoded /\ \E i \in 1..Len(up.parts) : NeedsSeeker(up.parts[i])) =>
        /\ up.pc = "Failed"
        /\ up.sent = <<>>
        /\ \A i \in 1..Len(up.parts) :
              NeedsSeeker(up.parts[i]) =>
                 /\ \A k \in 1..Len(up.enc.reads) : up.enc.reads[k].idx # i - 1
                 /\ Len(up.enc.arg) = i - 1 => up.err = ErrNotSeeker

\* C17 witness: the second part wants a checksum over a one-shot reader; the
\* first part's reader was read, and the call failed with the not-seekable
\* error.
C17_Witness ==
    /\ up.pc = "Failed"
    /\ Len(up.parts) >= 2
    /\ NeedsSeeker(up.parts[2])
    /\ Len(up.enc.arg) = 1
    /\ \E k \in 1..Len(up.enc.reads) : up.enc.reads[k].idx = 0
    /\ up.err = ErrNotSeeker
    /\ up.sent = <<>>

\* the value of the attachment of the part at index idx (from 0)
Attached(fields, idx) ==
    LET k == CHOOSE k \in 1..Len(fields) : fields[k].name = "part-" \o ToString(idx)
    IN  fields[k].value

\* what "the payload" of a Direct part can mean: the whole of its source, or
\* what its reader would yield from where it stands
Payloads(part) ==
    IF part.FileName # "" THEN {UpFiles[part.FileName]}
    ELSE {part.R.data, Remaining(part.R)}

\* C18: for a Direct part with a checksum requested and none supplied, the
\* checksum in the manifest is the CRC-32 (IEEE) of the payload, and the
\* bytes attached for upload are the whole payload.
C18_ChecksumRoundTrip ==
    UpBuilt =>
        \A i \in 1..Len(up.parts) :
            WantsChecksum(up.parts[i]) =>
                \E payload \in Payloads(up.parts[i]) :
                    /\ up.enc.arg[i].crc32 = ChecksumIEEE(payload)
                    /\ Attached(up.enc.fields, i - 1) = payload

\* the position in parts of the j-th Direct part
DirectPosition(parts, j) ==
    CHOOSE i \in 1..Len(parts) :
        /\ IsDirectPart(parts[i])
        /\ Cardinality({h \in 1..i : IsDirectPart(parts[h])}) = j

DirectCount(parts) == Cardinality({i \in 1..Len(parts) : IsDirectPart(parts[i])})

\* C19: the body PutParts builds is: token; key, exactly when hasKey; the
\* fields of extra.Params; one attachment per Direct part in the order of
\* the parts; and last the one "parts" field with the serialized manifest.
C19_BodyOrder ==
    /\ UpBuilt =>
        LET f == up.enc.fields
            k == IF up.hasKey THEN 1 ELSE 0
            m == Len(up.extra.Params)
            D == DirectCount(up.parts)
        IN  /\ Len(f) = 1 + k + m + D + 1
            /\ f[1] = FormField("token", Uptoken)
            /\ up.hasKey => f[2] = FormField("key", Path)
            /\ ~up.hasKey => \A i \in 1..Len(f) : f[i].name # "key"
            /\ {f[1 + k + j] : j \in 1..m}
                  = {FormField(up.extra.Params[j][1], up.extra.Params[j][2]) : j \in 1..m}
            /\ \A j \in 1..D :
                  /\ f[1 + k + m + j].name
                        = "part-" \o ToString(DirectPosition(up.parts, j) - 1)
                  /\ f[1 + k + m + j].filename # ""
            /\ f[Len(f)] = FormField("parts", [mimeType |-> up.extra.MimeType,
                                               parts |-> up.enc.arg])
            /\ \A i \in 1..(Len(f) - 1) : f[i].name # "parts"
    /\ \A n \in 1..Len(up.sent) : up.sent[n].body = up.enc.fields

\* C19 witness: a body with the key, two metadata fields and the
\* attachments of the first and the third part, around a Copy part, was sent.
C19_Witness ==
    /\ up.pc = "Done"
    /\ up.hasKey
    /\ Len(up.extra.Params) = 2
    /\ Len(up.parts) = 3
    /\ IsDirectPart(up.parts[1])
    /\ ~IsDirectPart(up.parts[2])
    /\ IsDirectPart(up.parts[3])
    /\ Len(up.sent) = 1
    /\ Len(up.sent[1].body) = 7

\* C20: for every list PutParts accepts the manifest has one descriptor per
\* part, in the same order, typed direct for a part with a file name or a
\* reader and copy otherwise; the Direct part at position i, and no other
\* part, has an attachment, named part-i.
C20_PositionalCorrelation ==
    UpBuilt =>
        LET f == up.enc.fields
            arg == up.enc.arg
            Name(i) == "part-" \o ToString(i - 1)
        IN  /\ Len(arg) = Len(up.parts)
            /\ \A i \in 1..Len(up.parts) :
                  IF IsDirectPart(up.parts[i])
                    THEN /\ arg[i].type = typeDirect
                         /\ Cardinality({n \in 1..Len(f) :
                                           f[n].name = Name(i) /\ f[n].filename # ""}) = 1
                    ELSE /\ arg[i] = CopyDesc(up.parts[i].Key, up.parts[i].From,
                                              up.parts[i].To)
                         /\ \A n \in 1..Len(f) : f[n].name # Name(i)
            /\ \A n \in 1..Len(f) :
                  f[n].filename # "" =>
                     \E i \in 1..Len(up.parts) :
                        IsDirectPart(up.parts[i]) /\ f[n].name = Name(i)

\* C20 witness: a list of a Copy part followed by two Direct parts, one of
\* them a named file, was encoded; the attachments are part-1 and part-2.
C20_Witness ==
    /\ up.pc = "Post"
    /\ Len(up.parts) = 3
    /\ ~IsDirectPart(up.parts[1])
    /\ up.parts[2].FileName # ""
    /\ up.parts[3].R # NilReader
    /\ \E n \in 1..Len(up.enc.fields) : up.enc.fields[n].name = "part-2"
    /\ \A n \in 1..Len(up.enc.fields) : up.enc.fields[n].name # "part-0"

\* what the backend makes of the object obj when it applies request
Resolved(obj, request) ==
    IF request.op = "put" THEN request.body
    ELSE Compose(obj, request.body).data

\* the call p has its compose or PUT accepted in this step
Applied(p) == ws[p].pc \in {"PutParts", "PutFile"} /\ ws'[p].pc = "Done"

C22_Idempotent ==
    [][(ws[1].pc = "Done" /\ Applied(2)) => object' = object]_vars

\* the states of a call: Staging (probe and staging), Planning, Composing
Staging == {"Stat", "TempFile", "Copy", "Seek"}

Planning == {"Plan"}

Composing == {"PutParts", "PutFile"}

\* the statement that follows pc when pc does not fail
Following(pc) ==
    CASE pc = "Stat" -> {"TempFile"}
      [] pc = "TempFile" -> {"Copy"}
      [] pc = "Copy" -> {"Seek"}
      [] pc = "Seek" -> {"Plan"}
      [] pc = "Plan" -> Composing
      [] pc \in Composing -> {"Done"}
      [] OTHER -> {"Stat"}

\* C23: a call goes through Staging, Planning, Composing, Done in that
\* order, one statement after the other, without skipping or going back;
\* it may fail from any of them; Done and Failed end the call (the frame
\* only changes again by a new call); a request is sent only in Composing,
\* when the stream has been staged completely and the probe has returned.
C23_PhaseOrder ==
    [][\A p \in Procs :
         ws'[p] # ws[p] =>
            /\ ws'[p].pc \in Following(ws[p].pc)
                  \cup (IF ws[p].pc \in Staging \cup Planning \cup Composing
                          THEN {"Failed"} ELSE {})
            /\ ws'[p].pc = "Done" => ws[p].pc \in Composing
            /\ ws'[p].pc \in Composing =>
                  /\ ws'[p].tmpF.data = ws'[p].reader
                  /\ ws'[p].written = Len(ws'[p].reader)
                  /\ ws'[p].tmpF.pos = 0
            /\ ws'[p].sent # ws[p].sent /\ ws'[p].sent # <<>> =>
                  /\ ws[p].pc \in Composing
                  /\ ws[p].tmpF.data = ws[p].reader
                  /\ ws[p].written = Len(ws[p].reader)
                  /\ ws[p].writeWholeFile \/ ws[p].stat.err = ""]_vars

\* C23 witness: a call that staged two bytes over an existing object went
\* all the way to Done with its compose request.
C23_Witness ==
    \E p \in Procs :
        /\ ws[p].pc = "Done"
        /\ Found(ws[p])
        /\ Len(ws[p].reader) = 2
        /\ ws[p].written = 2
        /\ Len(ws[p].parts) = 3
        /\ Len(ws[p].sent) = 1

\* the passes PutParts made over the source of the part at position i
PassesOver(i) == {k \in 1..Len(up.enc.reads) : up.enc.reads[k].idx = i - 1}

\* C24: when PutParts has built the body, the source of each Direct part was
\* read in full exactly once for the upload, and exactly once more, before
\* that, when a checksum was requested and not supplied; no other pass was
\* made, and none over a Copy part.
C24_ReadOnce ==
    UpBuilt =>
        \A i \in 1..Len(up.parts) :
            LET uploads == {k \in PassesOver(i) : up.enc.reads[k].pass = "upload"}
                sums == {k \in PassesOver(i) : up.enc.reads[k].pass = "crc32"}
            IN  IF IsDirectPart(up.parts[i])
                  THEN /\ PassesOver(i) = uploads \cup sums
                       /\ Cardinality(uploads) = 1
                       /\ Cardinality(sums) = IF WantsChecksum(up.parts[i]) THEN 1 ELSE 0
                       /\ \A k \in sums : \A u \in uploads : k < u
                       /\ \A k \in PassesOver(i) :
                             up.enc.reads[k].n = Len(Attached(up.enc.fields, i - 1))
                  ELSE PassesOver(i) = {}

\* the conditions of the planner's if / else-if chain, in order
BranchTests(offset, size) == <<offset = 0, offset = size, offset < size, offset > size>>

\* the branches that are taken: a test that holds after tests that do not
BranchesTaken(offset, size) ==
    {b \in 1..4 : /\ BranchTests(offset, size)[b]
                  /\ \A a \in 1..(b - 1) : ~BranchTests(offset, size)[a]}

\* the parts branch b builds for frame f
BranchParts(b, f) ==
    LET part_Reader == ReaderPart(FileReader(f.tmpF.data, f.tmpF.pos))
    IN  CASE b = 1 -> PlanAtStart(Path, f.written, f.stat.Size, part_Reader)
          [] b = 2 -> PlanAppend(Path, f.offset, part_Reader)
          [] b = 3 -> PlanOverwrite(Path, f.offset, f.written, f.stat.Size, part_Reader)
          [] b = 4 -> PlanPastEnd(Path, f.offset, f.stat.Size, part_Reader)

\* C25: whenever WriteStream has planned over an existing object, exactly
\* one branch of the planner was taken and built the parts; every Copy part
\* among them has To == -1 or To > From, the parts encode without error, and
\* no call ever returns the invalid-range error of PutParts.
C25_PlannedRangesValid ==
    \A p \in Procs :
        /\ Planned(ws[p]) =>
              /\ Cardinality(BranchesTaken(ws[p].offset, ws[p].stat.Size)) = 1
              /\ \A b \in BranchesTaken(ws[p].offset, ws[p].stat.Size) :
                    ws[p].parts = BranchParts(b, ws[p])
              /\ \A i \in 1..Len(ws[p].parts) :
                    ~IsDirectPart(ws[p].parts[i]) =>
                        \/ ws[p].parts[i].To = -1
                        \/ ws[p].parts[i].To > ws[p].parts[i].From
              /\ Validates(ws[p])
        /\ ws[p].err # ErrInvalidRange

\* C25 witness: an overwrite inside the object planned a bounded Copy of the
\* prefix and an open-ended Copy of the tail, and the compose was applied.
C25_Witness ==
    \E p \in Procs :
        /\ ws[p].pc = "Done"
        /\ Len(ws[p].parts) = 3
        /\ IsCopy(ws[p].parts[1], Path, 0, ws[p].offset)
        /\ IsCopy(ws[p].parts[3], Path, ws[p].offset + ws[p].written, -1)
        /\ ws[p].offset > 0
        /\ ws[p].written > 0

\* C26: every Copy part in a request WriteStream sends names a key at which
\* the probe found an object, also when the probe reported a directory.
C26_CopySourceExists ==
    \A p \in Procs :
        \A n \in 1..Len(ws[p].sent) :
            (/\ ws[p].sent[n].op = "parts"
             /\ \E i \in 1..Len(ws[p].parts) : ~IsDirectPart(ws[p].parts[i])) =>
                /\ ~ws[p].writeWholeFile
                /\ ~ws[p].stat.IsDir

====
